---- MODULE Spec2Model ----
(***************************************************************************)
(* Model of update-fuel-rate.py: one run of main(), which fetches the      *)
(* surcharge page, extracts the "From <date> to <date>: <rate>%" records,  *)
(* resolves the current and the next period against the clock and          *)
(* overwrites fuel-rate.json.                                              *)
(*                                                                         *)
(* Text is modelled by its tokens: a date string "1 January 2024" is the   *)
(* triple <<1, "January", 2024>>, a rate string "17.3" is the sequence of  *)
(* its characters <<"1", "7", ".", "3">>, and the page is the sequence of  *)
(* its candidate lines.  A datetime is [date |-> proleptic Gregorian       *)
(* ordinal, secs |-> seconds since midnight]; a float read from a decimal  *)
(* string is [num |-> n, exp |-> k], the value n / 10^k.  Python's None is *)
(* the empty sequence and a present value x is <<x>>.                      *)
(***************************************************************************)
EXTENDS Integers, Sequences, FiniteSets, TLC

\* Largest number of candidate lines on the fetched page.
MaxMatches == 3

None == << >>
Some(x) == << x >>

---------------------------------------------------------------------------
(* Calendar: datetime.strptime(s, "%d %B %Y") and datetime comparison.     *)

MonthNames ==
    << "January", "February", "March", "April", "May", "June", "July",
       "August", "September", "October", "November", "December" >>

MonthIndex(w) == CHOOSE i \in 1..12 : MonthNames[i] = w

IsLeap(y) == (y % 4 = 0) /\ ((y % 100 # 0) \/ (y % 400 = 0))

DaysInMonth(y, m) ==
    IF m = 2 THEN (IF IsLeap(y) THEN 29 ELSE 28)
    ELSE IF m \in {4, 6, 9, 11} THEN 30 ELSE 31

RECURSIVE DaysBeforeMonth(_, _)
DaysBeforeMonth(y, m) ==
    IF m = 1 THEN 0 ELSE DaysBeforeMonth(y, m - 1) + DaysInMonth(y, m - 1)

DaysBeforeYear(y) ==
    (y - 1) * 365 + ((y - 1) \div 4) - ((y - 1) \div 100) + ((y - 1) \div 400)

ToOrdinal(y, m, d) == DaysBeforeYear(y) + DaysBeforeMonth(y, m) + d

\* strptime raises ValueError unless the word is a full month name, the year
\* is 1..9999 and the day exists in that month.  (Python matches the name
\* without regard to case; the words here are written as the names are.)
StrptimeOk(s) ==
    /\ \E i \in 1..12 : MonthNames[i] = s[2]
    /\ s[3] \in 1..9999
    /\ s[1] \in 1..DaysInMonth(s[3], MonthIndex(s[2]))

\* The datetime strptime returns: the day at 00:00:00.
Strptime(s) == [date |-> ToOrdinal(s[3], MonthIndex(s[2]), s[1]), secs |-> 0]

DtLe(a, b) == (a.date < b.date) \/ (a.date = b.date /\ a.secs <= b.secs)
DtGt(a, b) == ~DtLe(a, b)

---------------------------------------------------------------------------
(* float(rate_str), rate / 100 and round(x, 4) on decimal values.          *)

Digits == {"0", "1", "2", "3", "4", "5", "6", "7", "8", "9"}

DigitVal(c) ==
    CASE c = "0" -> 0 [] c = "1" -> 1 [] c = "2" -> 2 [] c = "3" -> 3
      [] c = "4" -> 4 [] c = "5" -> 5 [] c = "6" -> 6 [] c = "7" -> 7
      [] c = "8" -> 8 [] c = "9" -> 9

RECURSIVE Pow10(_)
Pow10(k) == IF k = 0 THEN 1 ELSE 10 * Pow10(k - 1)

RECURSIVE DigitsVal(_)
DigitsVal(s) ==
    IF s = << >> THEN 0
    ELSE 10 * DigitsVal(SubSeq(s, 1, Len(s) - 1)) + DigitVal(s[Len(s)])

RECURSIVE Normalize(_)
Normalize(f) ==
    IF f.exp > 0 /\ f.num % 10 = 0
    THEN Normalize([num |-> f.num \div 10, exp |-> f.exp - 1])
    ELSE f

DotPositions(s) == {i \in 1..Len(s) : s[i] = "."}

\* float() raises ValueError on a string of digits and dots that has more than
\* one dot or no digit at all.
FloatOk(s) ==
    /\ Cardinality(DotPositions(s)) <= 1
    /\ \E i \in 1..Len(s) : s[i] \in Digits

Float(s) ==
    LET ds == SelectSeq(s, LAMBDA c : c \in Digits)
        k  == IF DotPositions(s) = {} THEN 0
              ELSE Len(s) - (CHOOSE i \in DotPositions(s) : TRUE)
    IN  Normalize([num |-> DigitsVal(ds), exp |-> k])

Div100(f) == Normalize([num |-> f.num, exp |-> f.exp + 2])

\* Mutant of Round: the digits after the nd-th are cut off.
RoundDown(f, nd) ==
    IF f.exp <= nd THEN {f.num * Pow10(nd - f.exp)}
    ELSE {f.num \div Pow10(f.exp - nd)}

\* round(x, nd), as the set of results in units of 10^-nd.  A value that is
\* not halfway between two neighbours goes to the nearer one.  A decimal tie is
\* decided by the binary double that stands for it (17.305 / 100 rounds up,
\* 3.125 / 100 rounds down), so either neighbour is a possible result.
Round(f, nd) ==
    IF f.exp <= nd THEN {f.num * Pow10(nd - f.exp)}
    ELSE LET d == Pow10(f.exp - nd)
             q == f.num \div d
             r == f.num % d
         IN  IF 2 * r < d THEN {q}
             ELSE IF 2 * r > d THEN {q + 1}
             ELSE {q, q + 1}

---------------------------------------------------------------------------
(* parse_rates: extraction, date resolution, current and next selection.   *)

\* The pattern: a day of one or two digits, a word, a year of four digits,
\* twice, and a rate of one or more digits and dots before the "%".
DateTokensMatch(s) == s[1] \in 0..99 /\ s[3] \in 0..9999

PatternMatches(line) ==
    /\ DateTokensMatch(line.from)
    /\ DateTokensMatch(line.to)
    /\ Len(line.rate) >= 1
    /\ \A i \in 1..Len(line.rate) : line.rate[i] \in Digits \cup {"."}

findall(html) == SelectSeq(html, PatternMatches)

\* The body of the try block succeeds: both strptime calls and float().
EntryOk(m) == StrptimeOk(m.from) /\ StrptimeOk(m.to) /\ FloatOk(m.rate)

\* The dict appended for the i-th match; id stands for the object's identity.
Entry(m, i) ==
    [id |-> i, from |-> m.from, to |-> m.to,
     fromDate |-> Strptime(m.from), toDate |-> Strptime(m.to),
     rate |-> Float(m.rate)]

\* Mutant of ParseEntries: the try block around the whole loop, so that one
\* ValueError loses every entry.
ParseEntriesTryAroundLoop(matches, n) ==
    IF \E i \in 1..n : ~EntryOk(matches[i]) THEN << >>
    ELSE [i \in 1..n |-> Entry(matches[i], i)]

\* The for loop over the first n matches: a match that raises ValueError is
\* skipped, the others are appended in order.
RECURSIVE ParseEntries(_, _)
ParseEntries(matches, n) ==
    IF n = 0 THEN << >>
    ELSE LET before == ParseEntries(matches, n - 1)
         IN  IF EntryOk(matches[n])
             THEN Append(before, Entry(matches[n], n))
             ELSE before

\* Where a stable descending sort puts e among the already sorted s: before
\* the first element whose fromDate is strictly earlier.
InsertDesc(s, e) ==
    LET later == {j \in 1..Len(s) : DtGt(e.fromDate, s[j].fromDate)}
        k == IF later = {} THEN Len(s) + 1
             ELSE CHOOSE j \in later : \A j2 \in later : j <= j2
    IN  SubSeq(s, 1, k - 1) \o << e >> \o SubSeq(s, k, Len(s))

\* entries.sort(key=fromDate, reverse=True): stable, equal keys keep their order.
RECURSIVE SortByFromDateDesc(_)
SortByFromDateDesc(s) ==
    IF s = << >> THEN << >>
    ELSE InsertDesc(SortByFromDateDesc(SubSeq(s, 1, Len(s) - 1)), s[Len(s)])

Contains(e, now) == DtLe(e.fromDate, now) /\ DtLe(now, e.toDate)

\* Mutant of CurrentOf: the fallback takes the last entry, entries[-1].
CurrentOfFallbackLast(entries, now) ==
    LET hits == {i \in 1..Len(entries) : Contains(entries[i], now)}
    IN  IF hits # {}
        THEN entries[CHOOSE i \in hits : \A j \in hits : i <= j]
        ELSE entries[Len(entries)]

\* next((e for e in entries if fromDate <= now <= toDate), entries[0])
CurrentOf(entries, now) ==
    LET hits == {i \in 1..Len(entries) : Contains(entries[i], now)}
    IN  IF hits # {}
        THEN entries[CHOOSE i \in hits : \A j \in hits : i <= j]
        ELSE entries[1]

\* [e for e in entries if e["fromDate"] > now and e is not current]
FutureOf(entries, now, current) ==
    SelectSeq(entries, LAMBDA e : DtGt(e.fromDate, now) /\ e.id # current.id)

\* Mutant of NextOf: future[0], the candidate that starts latest.
NextOfFirst(future) == IF future # << >> THEN Some(future[1]) ELSE None

\* future[-1] if future else None
NextOf(future) == IF future # << >> THEN Some(future[Len(future)]) ELSE None

parse_rates(html, now) ==
    LET matches == findall(html)
    IN  IF matches = << >> THEN None
        ELSE LET parsed == ParseEntries(matches, Len(matches))
             IN  IF parsed = << >> THEN None
                 ELSE LET entries == SortByFromDateDesc(parsed)
                          current == CurrentOf(entries, now)
                          future  == FutureOf(entries, now, current)
                      IN  Some([current |-> current, nxt |-> NextOf(future)])

---------------------------------------------------------------------------
(* main: the output document and the run.                                  *)

FetchFailedMsg == "Failed to fetch page"
ParseFailedMsg == "Could not parse fuel rates from page"
UpdatedMsg == "Updated"

\* Decimal places of the rate fields.
RateDigits == 4

\* strftime("%Y-%m-%d %H:%M UTC"): the day and the minute, seconds dropped.
Strftime(t) == [date |-> t.date, minute |-> t.secs \div 60]

\* Mutant of OutputDoc: nextPeriod is left out.
OutputDocNoNextPeriod(current, nxt, r, nr, utcnow) ==
    LET output ==
            [rate |-> r, label |-> << current.rate, "%" >>,
             period |-> << current.from, current.to >>,
             updated |-> Strftime(utcnow)]
    IN  IF nxt # None
        THEN output @@ [nextRate |-> nr, nextLabel |-> << nxt[1].rate, "%" >>]
        ELSE output

\* The dict main dumps; r and nr are the rounded rate and next rate in units
\* of 10^-4.  A label is the float followed by "%", a period the two date
\* strings as they stood on the page.
OutputDoc(current, nxt, r, nr, utcnow) ==
    LET output ==
            [rate |-> r, label |-> << current.rate, "%" >>,
             period |-> << current.from, current.to >>,
             updated |-> Strftime(utcnow)]
    IN  IF nxt # None
        THEN output @@
             [nextRate |-> nr, nextLabel |-> << nxt[1].rate, "%" >>,
              nextPeriod |-> << nxt[1].from, nxt[1].to >>]
        ELSE output

\* The possible results of round(e["rate"] / 100, 4).
RoundedRate(e) == Round(Div100(e.rate), RateDigits)

\* The documents main can dump for a result of parse_rates.
OutputsOf(res, utcnow) ==
    { OutputDoc(res.current, res.nxt, r, nr, utcnow) :
        r \in RoundedRate(res.current),
        nr \in (IF res.nxt # None THEN RoundedRate(res.nxt[1]) ELSE {0}) }

\* The fuel-rate.json a previous run left behind.
PrevDoc ==
    [rate |-> 1650, label |-> << [num |-> 165, exp |-> 1], "%" >>,
     period |-> << << 1, "October", 2023 >>, << 31, "December", 2023 >> >>,
     updated |-> [date |-> ToOrdinal(2023, 10, 1), minute |-> 0]]

VARIABLES
    pc,       \* where main is: "start", "fetched", "resolved", "done"
    net,      \* whether the request of this run gets through: "up" or "down"
    page,     \* the lines of the page the site serves
    now,      \* the clock of the run
    html,     \* main's html, the fetched page
    result,   \* main's result, what parse_rates returned
    file,     \* the content of fuel-rate.json, None when there is no file
    stdout,   \* the lines printed so far
    fetches,  \* how many requests fetch_page has sent
    writes    \* how many times fuel-rate.json has been opened for writing

vars == << pc, net, page, now, html, result, file, stdout, fetches, writes >>

SeqsUpTo(S, n) == UNION {[1..k -> S] : k \in 0..n}

Line(f, t, r) == [from |-> f, to |-> t, rate |-> r]

\* A line the pattern does not match: no number stands before the "%".
NoiseLine == Line(<< 1, "July", 2024 >>, << 30, "September", 2024 >>, << "T", "B", "A" >>)

At(y, m, d, s) == [date |-> ToOrdinal(y, m, d), secs |-> s]

InitWith(lines, nows) ==
    /\ pc = "start"
    /\ net \in {"up", "down"}
    /\ page \in SeqsUpTo(lines, MaxMatches)
    /\ now \in nows
    /\ html = << >>
    /\ result = None
    /\ file \in {None, Some(PrevDoc)}
    /\ stdout = << >>
    /\ fetches = 0
    /\ writes = 0

\* Periods of one rate, with overlapping, adjacent and unparsable dates
\* ("31 June 2024"), seen before, inside, on the last day of and after them.
ResolverLines ==
    { Line(f, t, << "1", "7", ".", "3" >>) :
        f \in { << 1, "January", 2024 >>, << 1, "April", 2024 >>, << 1, "July", 2024 >> },
        t \in { << 31, "March", 2024 >>, << 30, "June", 2024 >>, << 31, "June", 2024 >> } }
    \cup {NoiseLine}

ResolverNows ==
    { At(2023, 12, 15, 32400), At(2024, 2, 15, 32400), At(2024, 3, 31, 0),
      At(2024, 3, 31, 32400), At(2024, 5, 15, 32400), At(2024, 8, 15, 32400) }

Init == InitWith(ResolverLines, ResolverNows)

\* fetch_page returns the decoded page.
FetchOk ==
    /\ pc = "start"
    /\ net = "up"
    /\ html' = page
    /\ fetches' = fetches + 1
    /\ pc' = "fetched"
    /\ UNCHANGED << net, page, now, result, file, stdout, writes >>

\* Mutant of FetchFail: the return after the message is missing, and main
\* goes on with an empty text.
FetchFailNoReturn ==
    /\ pc = "start"
    /\ net = "down"
    /\ fetches' = fetches + 1
    /\ stdout' = Append(stdout, FetchFailedMsg)
    /\ html' = << >>
    /\ pc' = "fetched"
    /\ UNCHANGED << net, page, now, result, file, writes >>

\* fetch_page raises (network error, timeout, HTTP error, undecodable body):
\* main prints the failure and returns.
FetchFail ==
    /\ pc = "start"
    /\ net = "down"
    /\ fetches' = fetches + 1
    /\ stdout' = Append(stdout, FetchFailedMsg)
    /\ pc' = "done"
    /\ UNCHANGED << net, page, now, html, result, file, writes >>

\* result = parse_rates(html) is a (current, nxt) tuple.
ParseOk ==
    /\ pc = "fetched"
    /\ parse_rates(html, now) # None
    /\ result' = parse_rates(html, now)
    /\ pc' = "resolved"
    /\ UNCHANGED << net, page, now, html, file, stdout, fetches, writes >>

\* Mutant of ParseFail: the file is opened for writing before the text is
\* parsed, and is left empty.
ParseFailAfterOpen ==
    /\ pc = "fetched"
    /\ parse_rates(html, now) = None
    /\ result' = None
    /\ file' = Some(<< >>)
    /\ writes' = writes + 1
    /\ stdout' = Append(stdout, ParseFailedMsg)
    /\ pc' = "done"
    /\ UNCHANGED << net, page, now, html, fetches >>

\* result = parse_rates(html) is None: main prints the failure and returns.
ParseFail ==
    /\ pc = "fetched"
    /\ parse_rates(html, now) = None
    /\ result' = None
    /\ stdout' = Append(stdout, ParseFailedMsg)
    /\ pc' = "done"
    /\ UNCHANGED << net, page, now, html, file, fetches, writes >>

\* Mutant of WriteOutput: the file is written and nothing is printed.
WriteOutputNoPrint ==
    /\ pc = "resolved"
    /\ \E output \in OutputsOf(result[1], now) : file' = Some(output)
    /\ writes' = writes + 1
    /\ pc' = "done"
    /\ UNCHANGED << net, page, now, html, result, fetches, stdout >>

\* main builds output, overwrites fuel-rate.json with it and prints.
WriteOutput ==
    /\ pc = "resolved"
    /\ \E output \in OutputsOf(result[1], now) : file' = Some(output)
    /\ writes' = writes + 1
    /\ stdout' = Append(stdout, UpdatedMsg)
    /\ pc' = "done"
    /\ UNCHANGED << net, page, now, html, result, fetches >>

Next == FetchOk \/ FetchFail \/ ParseOk \/ ParseFail \/ WriteOutput

Spec == Init /\ [][Next]_vars

\* Periods with rates of one and of three decimals, a rate on a decimal tie,
\* a rate float() rejects ("1.2.3") and a month strptime rejects ("Sept").
RateLines ==
    { Line(f, << 31, "March", 2024 >>, r) :
        f \in { << 1, "January", 2024 >>, << 1, "April", 2024 >>, << 1, "Sept", 2024 >> },
        r \in { << "1", "7", ".", "3" >>, << "1", "7", ".", "3", "0", "6" >>,
                << "1", "7", ".", "3", "0", "5" >>, << "1", ".", "2", ".", "3" >> } }
    \cup {NoiseLine}

RateNows == { At(2024, 2, 15, 32400) }

RateInit == InitWith(RateLines, RateNows)

RateSpec == RateInit /\ [][Next]_vars

---------------------------------------------------------------------------
(* What the claims speak of.                                               *)

\* parse_rates has been called in this run.
ParseRan == pc = "resolved" \/ (pc = "done" /\ net = "up")

\* The matches of the fetched text, and those whose two dates parse.
MatchesOf(h) == {i \in 1..Len(h) : PatternMatches(h[i])}
DatesParse(l) == StrptimeOk(l.from) /\ StrptimeOk(l.to)

\* The entries the fetched text holds: one per match that parses in full.
ParsedSet(h) ==
    LET ms == findall(h)
    IN  {Entry(ms[i], i) : i \in {j \in 1..Len(ms) : EntryOk(ms[j])}}

\* The calendar day of now lies in the entry's period, both end days included.
ContainsDay(e, t) == e.fromDate.date <= t.date /\ t.date <= e.toDate.date

Starts(e) == e.fromDate.date

BaseKeys == {"rate", "label", "period", "updated"}
NextKeys == {"nextRate", "nextLabel", "nextPeriod"}

\* r / 10^4 is a nearest multiple of 10^-4 to f / 100.
NearestTo(r, f) ==
    LET scale == Pow10(f.exp + 2)
        diff  == r * scale - f.num * Pow10(4)
    IN  2 * diff <= scale /\ -2 * diff <= scale

---------------------------------------------------------------------------
(* C1 *)

\* C1, as claimed: once parse_rates has run on a text with at least one match
\* whose from-date and to-date both parse, its result is not None.
C1_AsClaimed ==
    (ParseRan /\ \E i \in MatchesOf(html) : DatesParse(html[i])) => result # None

\* C1, amended: once parse_rates has run on a text with at least one match
\* whose from-date, to-date and rate all parse, its result is not None and its
\* current is one of the parsed entries, whatever now is and whatever else
\* the text holds.
C1_CurrentExists ==
    (ParseRan /\ \E i \in MatchesOf(html) : DatesParse(html[i]) /\ FloatOk(html[i].rate))
        => (result # None /\ result[1].current \in ParsedSet(html))

\* A current entry was returned for a text that also holds a match with an
\* unparsable date and a match with an unparsable rate.
C1_Witness ==
    /\ ParseRan
    /\ result # None
    /\ \E i \in MatchesOf(html) : ~DatesParse(html[i])
    /\ \E i \in MatchesOf(html) : DatesParse(html[i]) /\ ~FloatOk(html[i].rate)

---------------------------------------------------------------------------
(* C2 *)

\* C2, as claimed: when the day of now lies in the period of some parsed
\* entry, end days included, current is such an entry, and it is the one of
\* them that starts latest.
C2_ContainingIsCurrent ==
    LET hits == {e \in ParsedSet(html) : ContainsDay(e, now)}
    IN  (ParseRan /\ hits # {})
            => /\ result # None
               /\ result[1].current \in hits
               /\ \A e \in hits : Starts(e) <= Starts(result[1].current)

---------------------------------------------------------------------------
(* C3 *)

\* C3: a returned next entry is a parsed entry other than current, starts
\* strictly after now, and no parsed entry other than current starts after
\* now and before it; next is None when no parsed entry other than current
\* starts after now.
C3_NextIsNearest ==
    (ParseRan /\ result # None) =>
        LET cur == result[1].current
            nxt == result[1].nxt
            cands == {e \in ParsedSet(html) : e.id # cur.id /\ DtGt(e.fromDate, now)}
        IN  /\ nxt # None =>
                /\ nxt[1] \in cands
                /\ \A e \in cands : Starts(nxt[1]) <= Starts(e)
            /\ cands = {} => nxt = None

\* A next entry was chosen among two candidates that start on different days.
C3_Witness ==
    /\ ParseRan
    /\ result # None
    /\ result[1].nxt # None
    /\ \E e \in ParsedSet(html) :
        /\ e.id # result[1].current.id
        /\ Starts(e) > Starts(result[1].nxt[1])

---------------------------------------------------------------------------
(* C4 *)

\* C4: a written document has exactly the keys rate, label, period and
\* updated when next is None and exactly those and the three next keys when
\* it is not, and it has no next key when no parsed entry starts after now.
C4_DocumentKeys ==
    writes > 0 =>
        /\ DOMAIN file[1] =
              (IF result[1].nxt = None THEN BaseKeys ELSE BaseKeys \cup NextKeys)
        /\ (\A e \in ParsedSet(html) : ~DtGt(e.fromDate, now))
              => DOMAIN file[1] \cap NextKeys = {}

\* A document with a next period has been written.
C4_Witness == writes > 0 /\ result[1].nxt # None /\ NextKeys \subseteq DOMAIN file[1]

---------------------------------------------------------------------------
(* C5 *)

\* C5: when the fetched text has no match whose two dates parse, the step
\* main takes after the fetch prints the parse failure and ends the run, and
\* it neither opens nor changes the file.
C5_ParseFailure ==
    [][ (pc = "fetched" /\ \A i \in MatchesOf(html) : ~DatesParse(html[i]))
          => /\ pc' = "done"
             /\ stdout' = << ParseFailedMsg >>
             /\ writes' = 0
             /\ file' = file ]_vars

\* A run over a text whose matches all fail date parsing has ended, with a
\* previous file in place.
C5_Witness ==
    /\ pc = "done"
    /\ net = "up"
    /\ MatchesOf(html) # {}
    /\ \A i \in MatchesOf(html) : ~DatesParse(html[i])
    /\ file = Some(PrevDoc)

---------------------------------------------------------------------------
(* C6 *)

\* C6: when the request fails, the run sends it once, prints the fetch
\* failure and nothing else, ends without a call of parse_rates, and neither
\* opens nor changes the file.
C6_FetchFailure ==
    [][ (pc = "start" /\ net = "down")
          => /\ pc' = "done"
             /\ fetches' = 1
             /\ stdout' = << FetchFailedMsg >>
             /\ html' = << >> /\ result' = None
             /\ writes' = 0
             /\ file' = file ]_vars

\* A run whose request failed has ended, with a previous file in place and
\* a page that would have parsed.
C6_Witness ==
    /\ pc = "done"
    /\ net = "down"
    /\ parse_rates(page, now) # None
    /\ file = Some(PrevDoc)

---------------------------------------------------------------------------
(* C7 *)

\* C7: in a written document rate is the current entry's percentage divided
\* by 100 and rounded to the nearest multiple of 10^-4 (17.3 gives 0.173),
\* and nextRate, when there is one, is so for the next entry's percentage.
C7_RateRounded ==
    writes > 0 =>
        LET cur == result[1].current
            nxt == result[1].nxt
        IN  /\ NearestTo(file[1].rate, cur.rate)
            /\ cur.rate = [num |-> 173, exp |-> 1] => file[1].rate = 1730
            /\ nxt # None => NearestTo(file[1].nextRate, nxt[1].rate)

\* A document was written whose rate and next rate both had digits to drop.
C7_Witness ==
    /\ writes > 0
    /\ result[1].nxt # None
    /\ result[1].current.rate.exp = 3
    /\ result[1].nxt[1].rate.exp = 3
    /\ file[1].rate = 1731

---------------------------------------------------------------------------
(* C8 *)

\* C8: when no parsed entry's period contains now, current is a parsed entry
\* that starts latest of all, be it over or not yet begun.
C8_FallbackIsLatest ==
    (ParseRan /\ result # None /\ \A e \in ParsedSet(html) : ~Contains(e, now))
        => /\ result[1].current \in ParsedSet(html)
           /\ \A e \in ParsedSet(html) : Starts(e) <= Starts(result[1].current)

\* The fallback chose among entries that start on different days, none of
\* which contains now.
C8_Witness ==
    /\ ParseRan
    /\ result # None
    /\ \A e \in ParsedSet(html) : ~Contains(e, now)
    /\ \E e \in ParsedSet(html) : Starts(e) < Starts(result[1].current)
    /\ DtGt(now, result[1].current.toDate)

---------------------------------------------------------------------------
(* C9 *)

\* What a finished run has printed and done.
C9_Outcome ==
    /\ writes <= 1
    /\ writes = 1 => (net = "up" /\ result # None)
    /\ pc = "done" =>
          /\ stdout \in { << FetchFailedMsg >>, << ParseFailedMsg >>, << UpdatedMsg >> }
          /\ stdout = << FetchFailedMsg >> <=> net = "down"
          /\ stdout = << UpdatedMsg >> <=> writes = 1
          /\ (net = "up" /\ ParsedSet(html) # {}) => writes = 1

\* How far main has come.
Rank(p) == CASE p = "start" -> 0 [] p = "fetched" -> 1 [] p = "resolved" -> 2 [] p = "done" -> 3

\* A run that has not ended can take a step.  After the fetch that is so
\* because parse_rates returns either None or a result.
CanStep ==
    /\ pc \in {"start", "fetched", "resolved", "done"}
    /\ pc = "start" => ENABLED (FetchOk \/ FetchFail)
    /\ pc = "resolved" => ENABLED WriteOutput

---------------------------------------------------------------------------
(* C10 *)

====
